---- MODULE Spec2Model ----
(***************************************************************************)
(* Short-video sharing backend (Express + Sequelize/Postgres).             *)
(* The repository holds two builds of the same server: src/server.js,      *)
(* whose handlers are wrapped in try/catch, and src/unnamed/part_000,      *)
(* whose handlers are not.  The variable impl says which build runs.       *)
(*                                                                         *)
(* The store (users, videos, comments) is the Postgres database.  A        *)
(* handler whose code holds a single database statement is one action,     *)
(* taken at that statement; the like handler reads and writes in two       *)
(* statements and is two actions (LikeRead, LikeSave) with the loaded      *)
(* instance in flight between them.                                        *)
(***************************************************************************)
EXTENDS Integers, Sequences, FiniteSets, TLC

\* ------------------------------------------------------------- bounds
MaxUsers == 2
MaxVideos == 1
MaxComments == 1
MaxClock == 1
MaxLikes == 1
\* the like race: likes requested, handlers in flight at once, and the
\* videos and comments around them
RaceLikes == 3
MaxInFlight == 3
RaceVideos == 2
RaceComments == 1
\* the feeds: videos in the table, and the most likes one of them has
MaxFeedVideos == 21
MaxFeedLikes == 3

\* '1d' of jwt.sign, in clock ticks: the clock of the model ticks once a day.
ExpiresIn == 1
\* limit: 20 of GET /recommended
RecommendedLimit == 20

\* ------------------------------------------------------------- inputs
Undefined == "undefined"
Emails == {"a@x.com", "b@x.com"}
Passwords == {"p", "q"}
EmailInputs == Emails \cup {Undefined}
PasswordInputs == Passwords \cup {Undefined}
RegisterPasswords == {"p", Undefined}
Files == {"clip.mp4", Undefined}
Impls == {"server.js", "part_000"}

VARIABLES impl, up, now, users, videos, comments, issued, inflight, resp, likeLog

vars == <<impl, up, now, users, videos, comments, issued, inflight, resp, likeLog>>
store == <<users, videos, comments>>

\* ------------------------------------------------------------- credentials
\* process.env.JWT_SECRET || 'secret'
JwtSecret == "secret"
OtherKey == "not-the-secret"

NoToken == [present |-> FALSE]

\* jwt.sign({ id }, secret, { expiresIn: '1d' }): the payload and an HMAC over it.
jwtSign(id, key, t) ==
  [present |-> TRUE, id |-> id, exp |-> t + ExpiresIn,
   sig |-> [key |-> key, id |-> id, exp |-> t + ExpiresIn]]

\* jwt.verify with ignoreExpiration: the signature alone.
jwtVerifyIgnoringExpiry(token, key, t) ==
  token.sig = [key |-> key, id |-> token.id, exp |-> token.exp]

\* jwt.verify(token, secret): the signature is the secret's over this very
\* payload, and the token is not expired (now >= exp is TokenExpiredError).
jwtVerify(token, key, t) ==
  /\ token.sig = [key |-> key, id |-> token.id, exp |-> token.exp]
  /\ t < token.exp

\* authMiddleware: "none" (401 No token), "invalid" (401 Invalid token), "next".
authMiddleware(token) ==
  IF ~token.present THEN "none"
  ELSE IF jwtVerify(token, JwtSecret, now) THEN "next"
  ELSE "invalid"

\* ------------------------------------------------------------- persistence
\* bcrypt.hash(password, 10): a digest, never the plaintext.
bcryptHash(password) == [bcrypt |-> password]

\* bcrypt.compare(s, hash): "throw" (Illegal arguments) unless s is a string.
bcryptCompare(password, hash) ==
  IF password = Undefined THEN "throw"
  ELSE IF hash = bcryptHash(password) THEN "match" ELSE "mismatch"

UserIds == 1..Len(users)
VideoIds == 1..Len(videos)

\* User.findOne({ where: { email } }): the id of the user, 0 for null.
findUserByEmail(email) ==
  IF \E i \in UserIds : users[i].email = email
  THEN CHOOSE i \in UserIds : users[i].email = email
  ELSE 0

\* The email column without its unique index.
UniqueEmailUnchecked(email) == TRUE

\* email: { unique: true }: the unique index rejects a second row with the
\* same email; rows whose email is NULL never collide.
UniqueEmailOk(email) ==
  email = Undefined \/ \A i \in UserIds : users[i].email # email

\* User.hasMany(Video, userId), User.hasMany(Comment, userId): foreign key.
UserFkOk(userId) == userId \in UserIds

\* The videoId column without its foreign key.
VideoFkUnchecked(videoId) == TRUE

\* Video.hasMany(Comment, videoId): foreign key.
VideoFkOk(videoId) == videoId \in VideoIds

\* video.likes + video.views / 10, a FLOAT, kept here in tenths.
Score10(likes, views) == likes * 10 + views

\* multer's filename: Date.now() + path.extname(file.originalname)
Extname(file) == IF file = "clip.mp4" THEN ".mp4" ELSE ""
Filename(file, t) == <<t, Extname(file)>>

\* User.create({ email, password: hashed, username }) with the column
\* defaults followers: [], following: [].
NewUser(email, password) ==
  [email |-> email, password |-> bcryptHash(password), username |-> "name",
   followers |-> <<>>, following |-> <<>>]

\* Video.create({ url, caption, userId, timestamp, recommendationsScore: 0 })
\* with the column defaults likes: 0, views: 0.
NewVideo(userId, file, caption, t) ==
  [url |-> <<"/videos/", Filename(file, t)>>, caption |-> caption, userId |-> userId,
   likes |-> 0, views |-> 0, timestamp |-> t, recommendationsScore |-> 0]

\* Comment.create({ videoId, userId, text, timestamp: new Date() })
NewComment(videoId, userId, text, t) ==
  [videoId |-> videoId, userId |-> userId, text |-> text, timestamp |-> t]

\* ------------------------------------------------------------- responses
NoBody == [none |-> TRUE]

\* The fixed message of each handler's catch block (server.js).
FixedMessage(op) ==
  CASE op = "register" -> "Registration failed"
    [] op = "login" -> "Login failed"
    [] op = "upload" -> "Upload failed"
    [] op = "duet" -> "Duet upload failed"
    [] op = "like" -> "Like failed"
    [] op = "comment" -> "Comment failed"
    [] op = "videos" -> "Internal server error"
    [] op = "recommended" -> "Internal server error"

\* What the request was: the operation, the class of its credential among
\* absent / invalid / expired / genuine (by the tokens issued so far, not by
\* the signature check), the user the credential was issued to, and whether
\* the thing the request names (its email, its video) was in the store.
Request(op, cls, uid, known) ==
  [op |-> op, cls |-> cls, uid |-> uid, known |-> known,
   status |-> 0, body |-> NoBody, raised |-> FALSE, changed |-> FALSE]

CredClass(token) ==
  IF ~token.present THEN "absent"
  ELSE IF token \notin issued THEN "invalid"
  ELSE IF now < token.exp THEN "genuine" ELSE "expired"

CredUser(token) == IF token \in issued THEN token.id ELSE 0

Idle == [busy |-> FALSE]
AllIdle == [s \in 1..MaxInFlight |-> Idle]

\* res.status(n).json(body) / res.send(body): the request is answered.
Answer(req, status, body) ==
  /\ resp' = [req EXCEPT !.status = status, !.body = body,
                         !.changed = (store' # store)]
  /\ up' = up

\* An error thrown inside an async handler.  server.js: the handler's catch
\* answers 500 with its fixed message.  part_000: nothing catches it; the
\* promise is rejected and what follows depends on the runtime: the request
\* is never answered (Express 4), the process also exits on the unhandled
\* rejection (Node 15 and later), or the router forwards the rejection to
\* the default error handler (Express 5).
UnhandledOutcomes == {"hang", "crash", "express5"}

Thrown(req, flight) ==
  LET r == [req EXCEPT !.raised = TRUE, !.changed = (store' # store)] IN
  IF impl = "server.js"
  THEN /\ resp' = [r EXCEPT !.status = 500, !.body = [error |-> FixedMessage(req.op)]]
       /\ up' = up
       /\ inflight' = flight
  ELSE \E o \in UnhandledOutcomes :
         CASE o = "hang" ->
                /\ resp' = r
                /\ up' = up
                /\ inflight' = flight
           [] o = "crash" ->
                /\ resp' = r
                /\ up' = FALSE
                /\ inflight' = AllIdle
           [] o = "express5" ->
                /\ resp' = [r EXCEPT !.status = 500,
                                     !.body = [text |-> "Internal Server Error"]]
                /\ up' = up
                /\ inflight' = flight

\* authMiddleware's own answers.
Rejected(req, verdict) ==
  /\ UNCHANGED <<users, videos, comments, issued, inflight, likeLog>>
  /\ Answer(req, 401, [text |-> IF verdict = "none" THEN "No token" ELSE "Invalid token"])

\* ------------------------------------------------------------- clients
\* What a client can put in the Authorization header: nothing, a token it was
\* issued, an issued token with its payload altered (another user id, a later
\* expiry) under the old signature, or a token signed with another key.
Tampered(t) ==
  {[t EXCEPT !.id = i] : i \in (1..(Len(users) + 1)) \ {t.id}} \cup {[t EXCEPT !.exp = t.exp + 1]}

Forged == {jwtSign(i, OtherKey, now) : i \in UserIds}

Credentials ==
  {NoToken} \cup issued \cup UNION {Tampered(t) : t \in issued} \cup Forged

FreeSlots == {s \in 1..MaxInFlight : ~inflight[s].busy}
BusyOn(v) == {s \in 1..MaxInFlight : inflight[s].busy /\ inflight[s].id = v}

\* ------------------------------------------------------------- handlers
Init ==
  /\ impl \in Impls
  /\ up = TRUE
  /\ now = 0
  /\ users = <<>>
  /\ videos = <<>>
  /\ comments = <<>>
  /\ issued = {}
  /\ inflight = AllIdle
  /\ resp = Request("none", "absent", 0, FALSE)
  /\ likeLog = <<>>

\* POST /register
Register(email, password) ==
  LET req == Request("register", "absent", 0, ~UniqueEmailOk(email)) IN
  /\ up
  /\ IF password = Undefined \/ ~UniqueEmailOk(email)
     THEN \* bcrypt.hash rejects, or User.create violates the unique index
          /\ UNCHANGED <<users, videos, comments, issued, likeLog>>
          /\ Thrown(req, inflight)
     ELSE /\ users' = Append(users, NewUser(email, password))
          /\ issued' = issued \cup {jwtSign(Len(users) + 1, JwtSecret, now)}
          /\ UNCHANGED <<videos, comments, inflight, likeLog>>
          /\ Answer(req, 200, [token |-> jwtSign(Len(users) + 1, JwtSecret, now)])
  /\ UNCHANGED <<impl, now>>

\* POST /login, as a function of the store: what the handler does with a body.
LoginOutcome(email, password) ==
  LET id == findUserByEmail(email) IN
  IF id = 0 THEN "reject"
  ELSE LET c == bcryptCompare(password, users[id].password) IN
       IF c = "throw" THEN "throw"
       ELSE IF c = "mismatch" THEN "reject" ELSE "token"

\* What the password of a login is to the stored credential of the email.
PasswordClass(email, password) ==
  IF \A i \in UserIds : users[i].email # email THEN "no user"
  ELSE IF \E i \in UserIds : users[i].email = email /\ users[i].password = [bcrypt |-> password]
  THEN "match" ELSE "mismatch"

InvalidCredentials ==
  IF impl = "server.js" THEN [error |-> "Invalid credentials"]
  ELSE [text |-> "Invalid credentials"]

Login(email, password) ==
  LET id == findUserByEmail(email)
      req == Request("login", PasswordClass(email, password), 0, id # 0)
      out == LoginOutcome(email, password) IN
  /\ up
  /\ CASE out = "reject" ->
            /\ UNCHANGED <<users, videos, comments, issued, inflight, likeLog>>
            /\ Answer(req, 401, InvalidCredentials)
       [] out = "throw" ->
            /\ UNCHANGED <<users, videos, comments, issued, likeLog>>
            /\ Thrown(req, inflight)
       [] out = "token" ->
            /\ issued' = issued \cup {jwtSign(id, JwtSecret, now)}
            /\ UNCHANGED <<users, videos, comments, inflight, likeLog>>
            /\ Answer(req, 200, [token |-> jwtSign(id, JwtSecret, now)])
  /\ UNCHANGED <<impl, now>>

\* The caption POST /videos stores, and the one POST /duets stores.
PlainCaption(caption) == <<caption>>
DuetCaption(caption) == <<caption, " (Duet)">>

\* POST /videos and POST /duets: authMiddleware, upload.single, Video.create.
UploadAs(op, token, file, caption) ==
  LET verdict == authMiddleware(token)
      req == Request(op, CredClass(token), CredUser(token), FALSE) IN
  /\ up
  /\ IF verdict # "next" THEN Rejected(req, verdict)
     ELSE IF file = Undefined \/ ~UserFkOk(token.id)
     THEN \* req.file is undefined, or the insert violates the foreign key
          /\ UNCHANGED <<users, videos, comments, issued, likeLog>>
          /\ Thrown(req, inflight)
     ELSE /\ videos' = Append(videos, NewVideo(token.id, file, caption, now))
          /\ likeLog' = Append(likeLog, [ok |-> 0, clean |-> TRUE, peak |-> 0])
          /\ UNCHANGED <<users, comments, issued, inflight>>
          /\ Answer(req, 200, NewVideo(token.id, file, caption, now))
  /\ UNCHANGED <<impl, now>>

Upload(token, file) == UploadAs("upload", token, file, PlainCaption("hi"))
Duet(token, file) == UploadAs("duet", token, file, DuetCaption("hi"))

Min(S) == CHOOSE x \in S : \A y \in S : x <= y
Max(S) == CHOOSE x \in S : \A y \in S : y <= x

\* POST /videos/:id/like, up to the end of await Video.findByPk(id): the
\* instance loaded is held by the handler until its save.
LikeRead(token, id) ==
  LET verdict == authMiddleware(token)
      req == Request("like", CredClass(token), CredUser(token), id \in VideoIds) IN
  /\ up
  /\ IF verdict # "next" THEN Rejected(req, verdict)
     ELSE IF id \notin VideoIds
     THEN /\ UNCHANGED <<users, videos, comments, issued, likeLog>>
          /\ IF impl = "server.js"
             THEN \* if (!video) return res.status(404)
                  /\ inflight' = inflight
                  /\ Answer(req, 404, [error |-> "Video not found"])
             ELSE \* video.likes += 1 on null: a TypeError
                  Thrown(req, inflight)
     ELSE /\ FreeSlots # {}
          /\ inflight' = [inflight EXCEPT ![Min(FreeSlots)] =
                            [busy |-> TRUE, id |-> id, uid |-> token.id,
                             video |-> videos[id], stale |-> FALSE]]
          /\ UNCHANGED <<users, videos, comments, issued, likeLog, resp, up>>
  /\ UNCHANGED <<impl, now>>

\* The score computed before the increment.
LikedScoreFirst(video) ==
  [video EXCEPT !.likes = video.likes + 1,
                !.recommendationsScore = Score10(video.likes, video.views)]

\* The increment computed and not assigned.
LikedNotAssigned(video) ==
  [video EXCEPT !.recommendationsScore = Score10(video.likes + 1, video.views)]

\* video.likes += 1; video.recommendationsScore = video.likes + video.views / 10
Liked(video) ==
  [video EXCEPT !.likes = video.likes + 1,
                !.recommendationsScore = Score10(video.likes + 1, video.views)]

\* await video.save(): an UPDATE of the changed columns of the row.
SaveLike(row, instance) ==
  [row EXCEPT !.likes = instance.likes,
              !.recommendationsScore = instance.recommendationsScore]

\* An UPDATE without its WHERE id: every row takes the instance's counters.
SavedEveryRow(table, id, instance) ==
  [i \in DOMAIN table |-> SaveLike(table[i], instance)]

\* The table after the UPDATE ... WHERE id of the save.
Saved(table, id, instance) == [table EXCEPT ![id] = SaveLike(@, instance)]

\* POST /videos/:id/like, from the increment to the response.
LikeSave(s) ==
  LET f == inflight[s]
      instance == Liked(f.video)
      req == Request("like", "genuine", f.uid, TRUE) IN
  /\ up
  /\ f.busy
  /\ videos' = Saved(videos, f.id, instance)
  /\ likeLog' = [likeLog EXCEPT ![f.id] =
                   [ok |-> @.ok + 1, clean |-> @.clean /\ ~f.stale,
                    peak |-> Max({@.peak, instance.likes})]]
  /\ inflight' = [t \in 1..MaxInFlight |->
                    IF t = s THEN Idle
                    ELSE IF inflight[t].busy /\ inflight[t].id = f.id
                    THEN [inflight[t] EXCEPT !.stale = TRUE]
                    ELSE inflight[t]]
  /\ UNCHANGED <<users, comments, issued>>
  /\ Answer(req, 200, instance)
  /\ UNCHANGED <<impl, now>>

\* POST /videos/:id/comments
Comment(token, id, text) ==
  LET verdict == authMiddleware(token)
      req == Request("comment", CredClass(token), CredUser(token), id \in VideoIds) IN
  /\ up
  /\ IF verdict # "next" THEN Rejected(req, verdict)
     ELSE IF ~VideoFkOk(id) \/ ~UserFkOk(token.id)
     THEN \* Comment.create violates a foreign key
          /\ UNCHANGED <<users, videos, comments, issued, likeLog>>
          /\ Thrown(req, inflight)
     ELSE /\ comments' = Append(comments, NewComment(id, token.id, text, now))
          /\ UNCHANGED <<users, videos, issued, inflight, likeLog>>
          /\ Answer(req, 200, NewComment(id, token.id, text, now))
  /\ UNCHANGED <<impl, now>>

\* Time passes.
Tick ==
  /\ now' = now + 1
  /\ UNCHANGED <<impl, up, users, videos, comments, issued, inflight, resp, likeLog>>

\* The likes requested so far: those answered and those in flight.
RECURSIVE Answered(_)
Answered(log) == IF log = <<>> THEN 0 ELSE Head(log).ok + Answered(Tail(log))

LikesStarted == Answered(likeLog) + Cardinality({s \in 1..MaxInFlight : inflight[s].busy})

\* The part of the state space a specification explores.
Within(maxUsers, maxVideos, maxComments, maxLikes, maxClock) ==
  /\ Len(users') <= maxUsers
  /\ Len(videos') <= maxVideos
  /\ Len(comments') <= maxComments
  /\ LikesStarted' <= maxLikes
  /\ now' <= maxClock

InBounds == Within(MaxUsers, MaxVideos, MaxComments, MaxLikes, MaxClock)

\* ------------------------------------------------------------- accounts
\* Register and login alone.  No other handler writes users or reads what
\* these two write except through a token, so the accounts reachable here
\* are the accounts reachable in Spec.
AccountsNext ==
  \/ \E e \in EmailInputs, p \in RegisterPasswords : Register(e, p) /\ InBounds
  \/ \E e \in Emails, p \in PasswordInputs : Login(e, p) /\ InBounds
  \/ Tick /\ InBounds

SpecAccounts == Init /\ [][AccountsNext]_vars

\* ------------------------------------------------------------- content
\* The database after register(a@x.com) at time 0, answered with its token:
\* a state of Spec.
OneUser ==
  /\ impl \in Impls
  /\ up = TRUE
  /\ now = 0
  /\ users = <<NewUser("a@x.com", "p")>>
  /\ videos = <<>>
  /\ comments = <<>>
  /\ issued = {jwtSign(1, JwtSecret, 0)}
  /\ inflight = AllIdle
  /\ resp = [Request("register", "absent", 0, FALSE) EXCEPT
               !.status = 200, !.body = [token |-> jwtSign(1, JwtSecret, 0)],
               !.changed = TRUE]
  /\ likeLog = <<>>

\* The four mutating endpoints under every credential a client can present,
\* until the token of time 0 has expired.
ContentBounds == Within(MaxUsers, MaxVideos, MaxComments, MaxLikes, ExpiresIn)

ContentNext ==
  \/ \E t \in Credentials, f \in Files : Upload(t, f) /\ ContentBounds
  \/ \E t \in Credentials, f \in Files : Duet(t, f) /\ ContentBounds
  \/ \E t \in Credentials, id \in 1..(Len(videos) + 1) : LikeRead(t, id) /\ ContentBounds
  \/ \E s \in 1..MaxInFlight : LikeSave(s) /\ ContentBounds
  \/ \E t \in Credentials, id \in 1..(Len(videos) + 1) : Comment(t, id, "nice") /\ ContentBounds
  \/ Tick /\ ContentBounds

SpecContent == OneUser /\ [][ContentNext]_vars

\* ------------------------------------------------------------- store
\* The requests of the token's holder (uploads, duets, comments and likes of
\* stored videos), interleaved at will: every like handler may be suspended
\* between its read and its save while the others run.
StoreNext ==
  \/ \E t \in issued, id \in VideoIds : LikeRead(t, id) /\ LikesStarted' <= RaceLikes
  \/ \E s \in 1..MaxInFlight : LikeSave(s)
  \/ \E t \in issued : Upload(t, "clip.mp4") /\ Len(videos') <= RaceVideos
  \/ \E t \in issued : Duet(t, "clip.mp4") /\ Len(videos') <= RaceVideos
  \/ \E t \in issued, id \in VideoIds : Comment(t, id, "nice") /\ Len(comments') <= RaceComments

SpecStore == OneUser /\ [][StoreNext]_vars

\* ------------------------------------------------------------- feeds
\* The row res.json sends for a video: its columns and its id.
Row(id) == [id |-> id, video |-> videos[id]]

\* ORDER BY key DESC over the rows ids.  SQL leaves the order of rows with
\* equal keys open: ties is one of the orders the database may choose.
RECURSIVE OrderDesc(_, _, _)
OrderDesc(ids, key, ties) ==
  IF ids = {} THEN <<>>
  ELSE LET top == {i \in ids : \A j \in ids : key[j] <= key[i]}
           first == IF ties = "low id first" THEN Min(top) ELSE Max(top)
       IN <<first>> \o OrderDesc(ids \ {first}, key, ties)

TieOrders == {"low id first", "high id first"}

Limit(rows, n) == SubSeq(rows, 1, Min({n, Len(rows)}))

\* Video.findAll({ order: [['timestamp', 'DESC']] })
findAllByTimestamp(ties) ==
  LET ids == OrderDesc(VideoIds, [i \in VideoIds |-> videos[i].timestamp], ties)
  IN [k \in 1..Len(ids) |-> Row(ids[k])]

\* The recommended feed ordered like the main feed.
findAllByScoreAsTimestamp(ties) ==
  LET ids == OrderDesc(VideoIds, [i \in VideoIds |-> videos[i].timestamp], ties)
  IN Limit([k \in 1..Len(ids) |-> Row(ids[k])], RecommendedLimit)

\* Video.findAll({ order: [['recommendationsScore', 'DESC']], limit: 20 })
findAllByScore(ties) ==
  LET ids == OrderDesc(VideoIds, [i \in VideoIds |-> videos[i].recommendationsScore], ties)
  IN Limit([k \in 1..Len(ids) |-> Row(ids[k])], RecommendedLimit)

\* GET /videos
GetVideos(ties) ==
  /\ up
  /\ UNCHANGED <<impl, now, users, videos, comments, issued, inflight, likeLog>>
  /\ Answer(Request("videos", "absent", 0, FALSE), 200, [rows |-> findAllByTimestamp(ties)])

\* GET /recommended
GetRecommended(ties) ==
  /\ up
  /\ UNCHANGED <<impl, now, users, videos, comments, issued, inflight, likeLog>>
  /\ Answer(Request("recommended", "absent", 0, FALSE), 200, [rows |-> findAllByScore(ties)])

\* ------------------------------------------------------------- the server
Next ==
  \/ \E e \in EmailInputs, p \in RegisterPasswords : Register(e, p) /\ InBounds
  \/ \E e \in Emails, p \in PasswordInputs : Login(e, p) /\ InBounds
  \/ \E t \in Credentials, f \in Files : Upload(t, f) /\ InBounds
  \/ \E t \in Credentials, f \in Files : Duet(t, f) /\ InBounds
  \/ \E t \in Credentials, id \in 1..(Len(videos) + 1) : LikeRead(t, id) /\ InBounds
  \/ \E s \in 1..MaxInFlight : LikeSave(s) /\ InBounds
  \/ \E t \in Credentials, id \in 1..(Len(videos) + 1) : Comment(t, id, "nice") /\ InBounds
  \/ \E ties \in TieOrders : GetVideos(ties) /\ InBounds
  \/ \E ties \in TieOrders : GetRecommended(ties) /\ InBounds
  \/ Tick /\ InBounds

\* The whole program, from an empty database.
Spec == Init /\ [][Next]_vars

\* ------------------------------------------------------------- feed tables
\* A table of n videos uploaded one after the other while the clock advanced
\* (every every-th upload falls on a new tick), video i liked
\* (i * step) % (MaxFeedLikes + 1) times, one like after the other.
FeedVideo(i, step, every) ==
  LET v == NewVideo(1, "clip.mp4", PlainCaption("hi"), i \div every)
      n == (i * step) % (MaxFeedLikes + 1)
  IN [v EXCEPT !.likes = n, !.recommendationsScore = Score10(n, v.views)]

FeedInit ==
  \E n \in 0..MaxFeedVideos, step \in 0..MaxFeedLikes, every \in 1..2 :
    /\ impl \in Impls
    /\ up = TRUE
    /\ now = n \div every
    /\ users = <<NewUser("a@x.com", "p")>>
    /\ videos = [i \in 1..n |-> FeedVideo(i, step, every)]
    /\ comments = <<>>
    /\ issued = {jwtSign(1, JwtSecret, 0)}
    /\ inflight = AllIdle
    /\ resp = Request("none", "absent", 0, FALSE)
    /\ likeLog = [i \in 1..n |-> [ok |-> FeedVideo(i, step, every).likes, clean |-> TRUE,
                                  peak |-> FeedVideo(i, step, every).likes]]

FeedNext ==
  \/ \E ties \in TieOrders : GetVideos(ties)
  \/ \E ties \in TieOrders : GetRecommended(ties)

SpecFeed == FeedInit /\ [][FeedNext]_vars

\* ------------------------------------------------------------- properties
MutatingOps == {"upload", "duet", "like", "comment"}

\* C1: every stored video has recommendationsScore = likes + views / 10 (in
\* tenths: 10 * likes + views), whatever requests ran and however the like
\* handlers interleaved; a video no like has been saved for has likes = 0,
\* views = 0 and score = 0.
ScoreIsDerived ==
  \A i \in VideoIds :
    /\ videos[i].recommendationsScore = 10 * videos[i].likes + videos[i].views
    /\ likeLog[i].ok = 0 =>
         /\ videos[i].likes = 0
         /\ videos[i].views = 0
         /\ videos[i].recommendationsScore = 0

\* Two likes of one video were answered and one of them was lost.
ScoreAfterLostLike ==
  \E i \in VideoIds : likeLog[i].ok = 2 /\ videos[i].likes = 1 /\ BusyOn(i) = {}

\* C2: an authenticated like of a video id that is not in the store is
\* answered 404, changes nothing, and leaves the service running.
LikeOfMissingVideoIs404 ==
  (resp.op = "like" /\ resp.cls = "genuine" /\ ~resp.known) =>
    (resp.status = 404 /\ ~resp.changed /\ up)

\* C3: on the four mutating endpoints a request whose credential is absent,
\* invalid or expired is answered 401 and changes nothing; a credential
\* issued to user u, unmodified and unexpired, is accepted, and the video or
\* comment the request creates is stored with userId = u.
AuthGate ==
  resp.op \in MutatingOps =>
    /\ resp.cls # "genuine" => (resp.status = 401 /\ ~resp.changed)
    /\ resp.cls = "genuine" => (resp.status # 401 /\ resp.uid \in UserIds)
    /\ (resp.status = 200 /\ resp.op \in {"upload", "duet"}) =>
         /\ resp.cls = "genuine"
         /\ Len(videos) >= 1
         /\ videos[Len(videos)] = resp.body
         /\ videos[Len(videos)].userId = resp.uid
    /\ (resp.status = 200 /\ resp.op = "comment") =>
         /\ resp.cls = "genuine"
         /\ Len(comments) >= 1
         /\ comments[Len(comments)] = resp.body
         /\ comments[Len(comments)].userId = resp.uid

\* The token that uploaded a video is presented again after it expired.
ExpiredTokenRejected ==
  /\ resp.op = "upload"
  /\ resp.cls = "expired"
  /\ resp.status = 401
  /\ Len(videos) >= 1

\* C4: no two users share an email, and a register request whose email is
\* in use is not answered 200, returns no token and changes nothing.
UniqueEmails ==
  /\ \A i, j \in UserIds :
       (i # j /\ users[i].email # Undefined) => users[i].email # users[j].email
  /\ (resp.op = "register" /\ resp.known) =>
       /\ resp.status # 200
       /\ "token" \notin DOMAIN resp.body
       /\ ~resp.changed

\* A third registration, with the email of one of two users, was refused.
DuplicateRefused ==
  /\ resp.op = "register"
  /\ resp.known
  /\ resp.raised
  /\ Len(users) = 2

\* C5: a login whose password does not match the stored credential is
\* answered exactly like a login for an email of no user: 401 with the
\* invalid-credentials body.
WrongPasswordIsUnauthenticated ==
  (resp.op = "login" /\ resp.cls \in {"mismatch", "no user"}) =>
    (resp.status = 401 /\ resp.body = InvalidCredentials)

\* What a feed response lists: rows of the table, no row twice.
RowsOfStore(rows) ==
  /\ \A k \in 1..Len(rows) : rows[k].id \in VideoIds /\ rows[k].video = videos[rows[k].id]
  /\ \A k, l \in 1..Len(rows) : k # l => rows[k].id # rows[l].id

RowIds(rows) == {rows[k].id : k \in 1..Len(rows)}

\* C6: GET /videos returns every stored video, newest timestamp first;
\* GET /recommended returns min(20, number of videos) videos, highest score
\* first, and no video left out has a higher score than one returned.
FeedsOrdered ==
  /\ resp.op = "videos" =>
       LET rows == resp.body.rows IN
       /\ resp.status = 200
       /\ RowsOfStore(rows)
       /\ RowIds(rows) = VideoIds
       /\ \A k \in 1..(Len(rows) - 1) :
            rows[k].video.timestamp >= rows[k + 1].video.timestamp
  /\ resp.op = "recommended" =>
       LET rows == resp.body.rows IN
       /\ resp.status = 200
       /\ RowsOfStore(rows)
       /\ Len(rows) = IF Len(videos) < 20 THEN Len(videos) ELSE 20
       /\ \A k \in 1..(Len(rows) - 1) :
            rows[k].video.recommendationsScore >= rows[k + 1].video.recommendationsScore
       /\ \A j \in VideoIds \ RowIds(rows) : \A k \in 1..Len(rows) :
            videos[j].recommendationsScore <= rows[k].video.recommendationsScore

\* The recommended feed of a table of more than 20 videos left some out and
\* is not in timestamp order.
RecommendedCutsAndReorders ==
  /\ resp.op = "recommended"
  /\ Len(videos) > 20
  /\ Len(resp.body.rows) = 20
  /\ \E k \in 1..19 :
       resp.body.rows[k].video.timestamp < resp.body.rows[k + 1].video.timestamp
  /\ \E k \in 1..19 :
       resp.body.rows[k].video.recommendationsScore
         > resp.body.rows[k + 1].video.recommendationsScore

\* C7: every video's userId is the id of a user, every comment's videoId the
\* id of a video and its userId the id of a user; a comment request naming
\* a video that does not exist stores nothing.
ReferentialIntegrity ==
  /\ \A i \in VideoIds : videos[i].userId \in UserIds
  /\ \A c \in 1..Len(comments) :
       comments[c].videoId \in VideoIds /\ comments[c].userId \in UserIds
  /\ (resp.op = "comment" /\ ~resp.known) => (resp.status # 200 /\ ~resp.changed)

\* An authenticated comment on a video id that is not in the store.
CommentOnMissingVideo ==
  /\ resp.op = "comment"
  /\ resp.cls = "genuine"
  /\ ~resp.known
  /\ resp.raised
  /\ comments = <<>>

\* C8: a request whose handler raised an error is answered 500 with the
\* handler's fixed message, and the service is still up for the requests
\* that follow.
HandlerErrorsAre500 ==
  /\ up
  /\ resp.raised => (resp.status = 500 /\ resp.body = [error |-> FixedMessage(resp.op)])

\* C9: once the likes of a video have all been answered, n of them with
\* success, its like count is 0 if n = 0 and between 1 and n otherwise.
LikeCountBounds ==
  \A i \in VideoIds :
    BusyOn(i) = {} =>
      IF likeLog[i].ok = 0 THEN videos[i].likes = 0
      ELSE 1 <= videos[i].likes /\ videos[i].likes <= likeLog[i].ok

\* Three likes of one video were answered; the count stands at 1 and stood
\* at 2 before: two likes were lost and the count went down.
LikesLostAndLowered ==
  \E i \in VideoIds :
    /\ BusyOn(i) = {}
    /\ likeLog[i].ok = 3
    /\ videos[i].likes = 1
    /\ likeLog[i].peak = 2

\* C10: a like that no other like of the video was saved under (between its
\* read and its save) raises the video's likes by one, sets the score to the
\* new count and changes no other column, no other video, no user and no
\* comment; so a video whose likes were all such likes has likes = score =
\* the number of likes answered.  No step changes a video's owner or URL.
LikeFrameStep ==
  /\ \A i \in VideoIds :
       videos'[i].userId = videos[i].userId /\ videos'[i].url = videos[i].url
  /\ \A s \in 1..MaxInFlight :
       (/\ inflight[s].busy /\ ~inflight'[s].busy /\ ~inflight[s].stale
        /\ resp'.op = "like" /\ resp'.status = 200) =>
         LET v == inflight[s].id IN
         /\ videos' = [videos EXCEPT ![v].likes = @ + 1,
                                     ![v].recommendationsScore = 10 * (videos[v].likes + 1)
                                                                  + videos[v].views]
         /\ users' = users
         /\ comments' = comments
  /\ \A i \in 1..Len(videos') :
       likeLog'[i].clean =>
         /\ videos'[i].likes = likeLog'[i].ok
         /\ videos'[i].recommendationsScore = 10 * likeLog'[i].ok

LikeFrame == [][LikeFrameStep]_vars

\* Three likes of a video, one after the other, beside another video and a
\* comment.
ThreeSequentialLikes ==
  /\ Len(videos) = 2
  /\ Len(comments) = 1
  /\ \E i \in VideoIds :
       likeLog[i].clean /\ likeLog[i].ok = 3 /\ videos[i].likes = 3

====
